---- MODULE Spec2Model ----
(***************************************************************************)
(* target_s3_json/s3.py: the stream segmenter (WrappedIoBuffer), the       *)
(* orchestrator loop (main), the upload dispatch (upload_thread) and the   *)
(* retry policy (_retry_pattern).                                          *)
(*                                                                         *)
(* Time is counted in ticks, TicksPerSecond ticks to the second.  A line   *)
(* of input is LineLen bytes; the j-th byte of the i-th line is <<i, j>>,  *)
(* so that a dropped, duplicated or reordered byte is visible.             *)
(***************************************************************************)
EXTENDS Integers, Sequences, FiniteSets, TLC

\* ---------------------------------------------------------------- bounds
MaxLines == 3
LineLen == 2
MaxSize == 1
MaxTicks == 2
MaxPauses == 1
MaxFlushCfg == 1
MaxUploads == 2
MaxFails == 5
MaxRecords == 2
TicksPerSecond == 2

\* ------------------------------------------------------ program constants
max_tries == 5
DefaultFlushSeconds == 600
ReadAll == 8192

LineTypes == {"SCHEMA", "RECORD", "STATE", "BAD"}
LongPause == DefaultFlushSeconds * TicksPerSecond
ClockValues == {a + b * LongPause : a \in 0..MaxTicks, b \in 0..MaxPauses}
ReadSizes == {-1} \cup (1..MaxSize)
Causes == {"Throttling", "AccessDenied"}
Compressions == {"none", "gzip", "lzma", "zip"}
EncryptionTypes == {"none", "kms", "aes"}
FileStates == {"missing", "empty", "data"}

VARIABLES
  input,            \* the lines the producer has written and readline returned
  eof,              \* readline has returned the empty result
  clock,            \* time.time(), in ticks since the module was loaded
  cfgFlush,         \* config['flush_seconds'], in ticks
  threadPool,       \* config.get('thread_pool', True)
  config,           \* the other keys of the configuration file
  environ,          \* os.environ: HTTP_PROXY, HTTPS_PROXY
  streamOf,         \* the stream name the producer gives its i-th line
  curSchemaBuffer,  \* global, line 192
  lastFlushTime,    \* global, line 193
  closed, empty, buffer, stoppedState, flushSeconds,  \* WrappedIoBuffer fields
  pc,               \* position of main
  lastTime,         \* main's lastTime, in seconds since the module was loaded
  client,           \* main's client: 0 is None, n the n-th session created
  raised,           \* an exception is propagating out of Loader.run
  uploads,          \* the uploads submitted through upload_thread
  hist,             \* per segment: seed, bytes delivered, first line, build second
  flushTimes,       \* the clock at each checkpoint-triggered flush
  retryIn, retryOut, \* a call of a function wrapped by _retry_pattern
  file,             \* the local file an upload call is given
  fnOut             \* the function called alone and what it returned

vars == <<input, eof, clock, cfgFlush, threadPool, config, environ, streamOf,
          curSchemaBuffer, lastFlushTime,
          closed, empty, buffer, stoppedState, flushSeconds, pc, lastTime, client,
          raised, uploads, hist, flushTimes, retryIn, retryOut, file, fnOut>>

segVars == <<closed, empty, buffer, stoppedState, flushSeconds>>
cfgVars == <<cfgFlush, threadPool, config, environ, streamOf>>
envVars == <<clock, cfgVars>>
retryVars == <<retryIn, retryOut, file, fnOut>>

\* ---------------------------------------------------------------- helpers
Min(a, b) == IF a < b THEN a ELSE b

\* the raw bytes of the i-th input line
Bytes(i) == [j \in 1..LineLen |-> <<i, j>>]

\* round(time.time()): to the nearest second, ties to the even second
Round(t) ==
  LET q == t \div TicksPerSecond
      r == t % TicksPerSecond
  IN IF 2 * r < TicksPerSecond THEN q
     ELSE IF 2 * r > TicksPerSecond THEN q + 1
     ELSE IF q % 2 = 0 THEN q ELSE q + 1

seg == Len(hist)

\* the first n bytes of b, and the rest (buffer[:n], buffer[n:])
Take(b, n) == SubSeq(b, 1, Min(n, Len(b)))
DropOneMore(b, n) == SubSeq(b, Min(n, Len(b)) + 2, Len(b))
Drop(b, n) == SubSeq(b, Min(n, Len(b)) + 1, Len(b))

\* the concatenation of a sequence of sequences
RECURSIVE Flat(_)
Flat(ss) == IF ss = <<>> THEN <<>> ELSE Head(ss) \o Flat(Tail(ss))

\* ------------------------------------------------------------ retry policy
\* backoff.on_exception(expo, ClientError, max_tries=5): the call is given up
\* when the number of tries made equals max_tries; no giveup predicate is set,
\* so the cause of the ClientError is not looked at.
GiveUpOneLater(tries, cause) == tries = max_tries + 1
GiveUp(tries, cause) == tries = max_tries

\* o[t] is what the t-th invocation of the wrapped function does: "ok", the
\* cause of the ClientError it raises, or the name of another exception, which
\* on_exception does not catch (an invocation past the end of o succeeds).
RECURSIVE RetryCall(_, _)
RetryCall(o, tries) ==
  LET t == tries + 1
      r == IF t <= Len(o) THEN o[t] ELSE "ok"
  IN IF r = "ok" THEN [ok |-> TRUE, calls |-> t, error |-> "none"]
     ELSE IF r \notin Causes THEN [ok |-> FALSE, calls |-> t, error |-> r]
     ELSE IF GiveUp(t, r) THEN [ok |-> FALSE, calls |-> t, error |-> r]
     ELSE RetryCall(o, t)

\* k ClientErrors, then success
FailThenOk(k) == [i \in 1..k |-> "Throttling"]

\* ------------------------------------------------------------------- Init
InitCommon ==
  /\ input = <<>>
  /\ eof = FALSE
  /\ cfgFlush \in 0..MaxFlushCfg
  /\ curSchemaBuffer = <<>>
  /\ lastFlushTime = 0
  /\ closed = FALSE /\ empty = FALSE /\ buffer = <<>> /\ stoppedState = FALSE
  /\ flushSeconds = 0
  /\ pc = "start"
  /\ lastTime = -1       \* line 270: second 0, long before the module was loaded
  /\ client = 0
  /\ raised = FALSE
  /\ uploads = {}
  /\ hist = <<>>
  /\ flushTimes = <<>>
  /\ retryIn = <<>>
  /\ retryOut = [ok |-> TRUE, calls |-> 0, error |-> "none"]
  /\ fnOut = [name |-> "none"]

\* a dict of proxies, "" for a key it does not have (or has as None)
NoProxies == [http |-> "", https |-> ""]

\* a configuration every key of which is supported, no proxy in the
\* environment, one stream, a local file with data
DefaultConfig ==
  [compression |-> "none", encryption_type |-> "none", s3_bucket |-> TRUE,
   local |-> FALSE, remove_file |-> TRUE, proxies |-> NoProxies,
   path_template |-> <<"path_template">>]

InitDefaults ==
  /\ config = DefaultConfig
  /\ environ = [HTTP_PROXY |-> "", HTTPS_PROXY |-> ""]
  /\ streamOf = [i \in 1..MaxLines |-> "a"]
  /\ file = "data"

\* the module is loaded at clock 0 (line 193 reads the clock), then main is called
Init ==
  /\ InitCommon
  /\ InitDefaults
  /\ clock = 0
  /\ threadPool \in BOOLEAN

\* the clock never goes back; the producer may pause for a long time
Tick ==
  /\ \E d \in {1, LongPause} :
       /\ clock + d \in ClockValues
       /\ clock' = clock + d
  /\ UNCHANGED <<input, eof, cfgVars, curSchemaBuffer, lastFlushTime,
                 segVars, pc, lastTime, client, raised, uploads, hist, flushTimes,
                 retryVars>>

\* ------------------------------------------------------------------- main
\* config_s3, lines 186-188: the one required key
MissingParams(cfg) == ~cfg.s3_bucket

\* lines 270-273: config_s3 raises when s3_bucket is missing
Start ==
  /\ pc = "start"
  /\ pc' = IF MissingParams(config) THEN "aborted" ELSE "loop"
  /\ UNCHANGED <<input, eof, envVars, curSchemaBuffer, lastFlushTime, segVars,
                 lastTime, client, raised, uploads, hist, flushTimes, retryVars>>

\* line 279: sleep is asyncio.sleep (line 12); main is not a coroutine, the
\* coroutine object sleep(1) makes is never awaited, and no time passes.
AfterSleep(t) == t

\* lines 277-280
LoopHead ==
  /\ pc = "loop"
  /\ LET curTime == Round(clock)
     IN /\ clock' = IF curTime = lastTime THEN AfterSleep(clock) ELSE clock
        /\ lastTime' = curTime
  /\ pc' = "build"
  /\ UNCHANGED <<input, eof, cfgVars, curSchemaBuffer, lastFlushTime,
                 segVars, client, raised, uploads, hist, flushTimes, retryVars>>

\* line 291: config.get('flush_seconds') if config.get('flush_seconds') else 10*60
FlushSecondsOf(c) == IF c # 0 THEN c ELSE DefaultFlushSeconds * TicksPerSecond

\* line 200: the buffer a new WrappedIoBuffer starts with
InitialBufferEmpty == <<>>
InitialBuffer == curSchemaBuffer

\* config_compression, lines 46-61: the schemes that do not raise
CompressionSupported(cfg) == cfg.compression \in {"gzip", "lzma", "none"}

\* line 281: config_compression raises NotImplementedError, which leaves main
BuildConfigRaises ==
  /\ pc = "build"
  /\ ~CompressionSupported(config)
  /\ pc' = "aborted"
  /\ UNCHANGED <<input, eof, envVars, curSchemaBuffer, lastFlushTime, segVars,
                 lastTime, client, raised, uploads, hist, flushTimes, retryVars>>

\* lines 281-291: the configuration (and the keys its template stamps with the
\* time) is built, and the segmenter of the segment is constructed.
BuildConfig ==
  /\ pc = "build"
  /\ CompressionSupported(config)
  /\ closed' = FALSE
  /\ empty' = FALSE
  /\ buffer' = InitialBuffer
  /\ stoppedState' = FALSE
  /\ flushSeconds' = FlushSecondsOf(cfgFlush)
  /\ hist' = Append(hist, [seed |-> InitialBuffer, out |-> <<>>,
                           from |-> Len(input), built |-> Round(clock)])
  /\ pc' = "auth"
  /\ UNCHANGED <<input, eof, envVars, curSchemaBuffer, lastFlushTime, lastTime,
                 client, raised, uploads, flushTimes, retryVars>>

\* line 292: if not client
NeedSessionAlways(c) == TRUE
NeedSession(c) == c = 0

\* lines 292-296: create_session runs under the retry policy, once; a
\* ClientError that outlives the retries propagates out of main.
Authenticate ==
  /\ pc = "auth"
  /\ \/ /\ ~NeedSession(client)
        /\ pc' = "run"
        /\ UNCHANGED client
     \/ /\ NeedSession(client)
        /\ \E k \in 0..MaxFails :
             LET r == RetryCall(FailThenOk(k), 0)
             IN /\ client' = IF r.ok THEN client + 1 ELSE client
                /\ pc' = IF r.ok THEN "run" ELSE "aborted"
  /\ UNCHANGED <<input, eof, envVars, curSchemaBuffer, lastFlushTime, segVars,
                 lastTime, raised, uploads, hist, flushTimes, retryVars>>

\* -------------------------------------------------------- WrappedIoBuffer
\* line 217: readMore returns at once when the segment is empty or closed
MayReadLineWhenEmpty(isEmpty, isClosed) == ~isClosed
MayReadLine(isEmpty, isClosed) == ~(isEmpty \/ isClosed)

\* lines 224-228: json.loads(readData) returns
ParsesAnything(type) == TRUE
Parses(type) == type # "BAD"

\* line 231: line['type'] == 'STATE'
AnyLineIsCheckpoint(type) == TRUE
IsCheckpoint(type) == type = "STATE"

\* line 233: curTime - lastFlushTime > self.flushSeconds
FlushDue(curTime, last, fs) == curTime - last > fs

\* line 236: lastFlushTime = curTime, only when the flush is triggered
LastFlushTimeKept(flush, curTime, last) == last
NextLastFlushTime(flush, curTime, last) == IF flush THEN curTime ELSE last

\* lines 238-240: curSchemaBuffer += readData, for a SCHEMA line
NextSchemaBuffer(type, readData) ==
  IF type = "SCHEMA" THEN curSchemaBuffer \o readData ELSE curSchemaBuffer

\* line 242: self.buffer += readData
AppendedReplaces(b, readData) == readData
Appended(b, readData) == b \o readData

\* line 246: readMore is called when the buffer is shorter than the size asked
NeedsMoreAlways(len, readSize) == TRUE
NeedsMore(len, readSize) == len < readSize

\* lines 248-253 on the buffer b that readMore left: the result is handed to
\* the consumer, the buffer slides, an empty buffer closes the segmenter.
Deliver(b, readSize) ==
  /\ closed' = (closed \/ Len(b) = 0)
  /\ buffer' = Drop(b, readSize)
  /\ hist' = [hist EXCEPT ![seg].out = @ \o Take(b, readSize)]

\* read(size), lines 244-253, with the readMore it calls, lines 214-242.  The
\* producer decides what readline returns: the empty result, or one more line.
Read(size) ==
  /\ pc = "run"
  /\ LET readSize == IF size = -1 THEN ReadAll ELSE size
         pull == NeedsMore(Len(buffer), readSize) /\ MayReadLine(empty, closed)
     IN
     \/ \* readMore is not called, or returns at line 218
        /\ ~pull
        /\ Deliver(buffer, readSize)
        /\ UNCHANGED <<input, eof, curSchemaBuffer, lastFlushTime, empty,
                       stoppedState, flushTimes, pc, raised>>
     \/ \* lines 220-222: end of input
        /\ pull
        /\ eof' = TRUE
        /\ empty' = TRUE
        /\ Deliver(buffer, readSize)
        /\ UNCHANGED <<input, curSchemaBuffer, lastFlushTime, stoppedState,
                       flushTimes, pc, raised>>
     \/ \* lines 224-228: the line does not parse; the error leaves read
        /\ pull /\ ~eof /\ Len(input) < MaxLines
        /\ \E type \in LineTypes :
             /\ ~Parses(type)
             /\ input' = Append(input, type)
        /\ raised' = TRUE
        /\ pc' = "drain"
        /\ UNCHANGED <<eof, curSchemaBuffer, lastFlushTime, closed, empty, buffer,
                       stoppedState, flushTimes, hist>>
     \/ \* lines 230-242: a line of the protocol
        /\ pull /\ ~eof /\ Len(input) < MaxLines
        /\ \E type \in LineTypes :
             LET readData == Bytes(Len(input) + 1)
                 flush == IsCheckpoint(type) /\ FlushDue(clock, lastFlushTime, flushSeconds)
             IN /\ Parses(type)
                /\ input' = Append(input, type)
                /\ empty' = flush
                /\ stoppedState' = flush
                /\ lastFlushTime' = NextLastFlushTime(flush, clock, lastFlushTime)
                /\ flushTimes' = IF flush THEN Append(flushTimes, clock) ELSE flushTimes
                /\ curSchemaBuffer' = NextSchemaBuffer(type, readData)
                /\ Deliver(Appended(buffer, readData), readSize)
        /\ UNCHANGED <<eof, pc, raised>>
  /\ UNCHANGED <<envVars, flushSeconds, lastTime, client, uploads, retryVars>>

\* ---------------------------------------------------------------- uploads
\* The caller of upload_thread (save_json, outside this file) gets the Future
\* that executor.submit returns and does not wait for its result.
CallerAwaitsHandle == FALSE

\* line 141: nothing is done in local mode, or when the local file is
\* missing or has no bytes
IsNoOpWithoutFile(cfg, f) == f # "data"
IsNoOp(cfg, f) == cfg.local \/ f # "data"

\* get_encryption_args, lines 104-121: the types that do not raise
EncryptionSupported(cfg) == cfg.encryption_type \in {"none", "kms"}

\* one invocation of the body of upload_file, lines 141-155, when the call of
\* client.upload_file would do r ("ok" or the cause of its ClientError)
UploadFileBody(cfg, f, r) ==
  IF IsNoOp(cfg, f) THEN "ok"
  ELSE IF ~EncryptionSupported(cfg) THEN "NotImplementedError"
  ELSE r

\* upload_file under the retry policy, lines 139-155, on the local file f, the
\* calls of client.upload_file doing o[1], o[2], ...: whether it returned, the
\* invocations of the body, the calls of the client, and the file afterwards
UploadFile(cfg, f, o) ==
  LET w == RetryCall([t \in 1..(max_tries + 1) |->
                       UploadFileBody(cfg, f, IF t <= Len(o) THEN o[t] ELSE "ok")], 0)
      reached == ~IsNoOp(cfg, f) /\ EncryptionSupported(cfg)
  IN [ok |-> w.ok, calls |-> w.calls, error |-> w.error,
      client_calls |-> IF reached THEN w.calls ELSE 0,
      file |-> IF reached /\ w.ok /\ cfg.remove_file THEN "missing" ELSE f]

\* how an upload ends: upload_file returned, a ClientError outlived the
\* retries, or another exception left it
UploadOutcome(cfg, f, k) ==
  LET r == UploadFile(cfg, f, FailThenOk(k))
  IN IF r.ok THEN "done" ELSE IF r.error \in Causes THEN "failed" ELSE "cfgerror"

\* upload_thread, lines 158-164, called by the consumer when it closes a file
\* (it has been handed bytes of the segment by then).
\* With the pool: executor.submit queues upload_file and returns its Future.
\* Without: upload_file runs in to_thread and is awaited, so that its error is
\* raised in Loader.run.
Writeline ==
  /\ pc = "run"
  /\ hist[seg].out # <<>>
  /\ Cardinality(uploads) < MaxUploads
  /\ LET id == Cardinality(uploads) + 1
     IN \/ /\ threadPool /\ ~CallerAwaitsHandle
           /\ uploads' = uploads \cup
                 {[id |-> id, seg |-> seg, client |-> client, st |-> "queued"]}
           /\ UNCHANGED <<pc, raised>>
        \/ /\ ~(threadPool /\ ~CallerAwaitsHandle)
           /\ \E k \in 0..MaxFails, f \in FileStates :
                LET st == UploadOutcome(config, f, k)
                IN /\ uploads' = uploads \cup
                      {[id |-> id, seg |-> seg, client |-> client, st |-> st]}
                   /\ raised' = (st # "done")
                   /\ pc' = IF st # "done" THEN "drain" ELSE "run"
  /\ UNCHANGED <<input, eof, envVars, curSchemaBuffer, lastFlushTime, segVars,
                 lastTime, client, hist, flushTimes, retryVars>>

\* a worker of the pool runs a queued upload_file; its error stays in the Future
WorkerRun ==
  /\ \E u \in uploads :
       /\ u.st = "queued"
       /\ \E k \in 0..MaxFails, f \in FileStates :
            uploads' = (uploads \ {u}) \cup
                         {[u EXCEPT !.st = UploadOutcome(config, f, k)]}
  /\ UNCHANGED <<input, eof, envVars, curSchemaBuffer, lastFlushTime, segVars, pc,
                 lastTime, client, raised, hist, flushTimes, retryVars>>

\* line 297: Loader.run returns once read has returned the empty result
RunReturn ==
  /\ pc = "run"
  /\ closed
  /\ pc' = "drain"
  /\ UNCHANGED <<input, eof, envVars, curSchemaBuffer, lastFlushTime, segVars,
                 lastTime, client, raised, uploads, hist, flushTimes, retryVars>>

\* line 296: leaving the with block is executor.shutdown(wait=True)
ShutdownNoWait == TRUE
ShutdownWait == \A u \in uploads : u.st # "queued"

\* the end of the with block, line 296-297: an error of Loader.run leaves main
PoolExit ==
  /\ pc = "drain"
  /\ ShutdownWait
  /\ pc' = IF raised THEN "aborted" ELSE "check"
  /\ UNCHANGED <<input, eof, envVars, curSchemaBuffer, lastFlushTime, segVars,
                 lastTime, client, raised, uploads, hist, flushTimes, retryVars>>

\* line 298: if not curLines.stoppedState(): break
ContinueInverted(stopped) == ~stopped
Continue(stopped) == stopped

\* lines 298-299
Check ==
  /\ pc = "check"
  /\ pc' = IF Continue(stoppedState) THEN "loop" ELSE "done"
  /\ UNCHANGED <<input, eof, envVars, curSchemaBuffer, lastFlushTime, segVars,
                 lastTime, client, raised, uploads, hist, flushTimes, retryVars>>

Next ==
  \/ Tick
  \/ Start
  \/ LoopHead
  \/ BuildConfigRaises
  \/ BuildConfig
  \/ Authenticate
  \/ \E size \in ReadSizes : Read(size)
  \/ Writeline
  \/ WorkerRun
  \/ RunReturn
  \/ PoolExit
  \/ Check

Spec == Init /\ [][Next]_vars

\* Segmentation under the clock: the consumer closes no file, nothing is uploaded.
InitSeg ==
  /\ InitCommon
  /\ InitDefaults
  /\ clock = 0
  /\ threadPool = TRUE

NextSeg ==
  \/ Tick
  \/ Start
  \/ LoopHead
  \/ BuildConfig
  \/ Authenticate
  \/ \E size \in ReadSizes : Read(size)
  \/ RunReturn
  \/ PoolExit
  \/ Check

SpecSeg == InitSeg /\ [][NextSeg]_vars

\* The orchestrator and the pool, under the default flush interval: main is
\* called as the module is loaded or after a long pause (the first STATE line
\* then ends the first segment), and the clock does not move during the run.
InitPool ==
  /\ InitCommon
  /\ InitDefaults
  /\ cfgFlush = 0
  /\ clock \in {0, LongPause + 1}
  /\ threadPool \in BOOLEAN

NextPool ==
  \/ Start
  \/ LoopHead
  \/ BuildConfig
  \/ Authenticate
  \/ \E size \in ReadSizes : Read(size)
  \/ Writeline
  \/ WorkerRun
  \/ RunReturn
  \/ PoolExit
  \/ Check

SpecPool == InitPool /\ [][NextPool]_vars

\* The same, when main is not stopped from outside: the consumer goes on
\* reading (Loader.run reads until the empty result), the workers of the pool
\* run the uploads submitted, and the producer ends its input.
SpecPoolLive == SpecPool /\ WF_vars(NextPool)

\* The retry policy alone: what each invocation of the wrapped function does is
\* drawn, and the wrapped function is called once.
InitRetry ==
  /\ InitCommon
  /\ InitDefaults
  /\ clock = 0
  /\ threadPool = TRUE
  /\ cfgFlush = 0

RetryInputs == [1..MaxFails -> {"ok"} \cup Causes]

DrawOutcomes ==
  /\ retryIn = <<>>
  /\ retryIn' \in RetryInputs
  /\ UNCHANGED <<input, eof, envVars, curSchemaBuffer, lastFlushTime, segVars, pc,
                 lastTime, client, raised, uploads, hist, flushTimes, retryOut,
                 file, fnOut>>

CallWrapped ==
  /\ retryIn # <<>>
  /\ retryOut.calls = 0
  /\ retryOut' = RetryCall(retryIn, 0)
  /\ UNCHANGED <<input, eof, envVars, curSchemaBuffer, lastFlushTime, segVars, pc,
                 lastTime, client, raised, uploads, hist, flushTimes, retryIn,
                 file, fnOut>>

NextRetry ==
  \/ DrawOutcomes
  \/ CallWrapped

SpecRetry == InitRetry /\ [][NextRetry]_vars

\* The orchestrator under a configuration that may be unsupported: the
\* compression, the encryption type and the presence of s3_bucket are drawn,
\* the interval is 0 and the clock does not move during the run.
InitConfig ==
  /\ InitCommon
  /\ cfgFlush = 0
  /\ clock = 0
  /\ threadPool \in BOOLEAN
  /\ \E c \in {"gzip", "zip"}, e \in {"none", "aes"}, b \in BOOLEAN :
       config = [DefaultConfig EXCEPT !.compression = c, !.encryption_type = e,
                                      !.s3_bucket = b]
  /\ environ = [HTTP_PROXY |-> "", HTTPS_PROXY |-> ""]
  /\ streamOf = [i \in 1..MaxLines |-> "a"]
  /\ file = "data"

NextConfig ==
  \/ Start
  \/ LoopHead
  \/ BuildConfigRaises
  \/ BuildConfig
  \/ Authenticate
  \/ \E size \in ReadSizes : Read(size)
  \/ Writeline
  \/ WorkerRun
  \/ RunReturn
  \/ PoolExit
  \/ Check

SpecConfig == InitConfig /\ [][NextConfig]_vars

\* ---------------------------------------------------- the functions alone
\* main, lines 282-289: the proxies the client is configured with
ProxyConfig(cfg, env) ==
  LET fromConfig == IF cfg.proxies # NoProxies THEN cfg.proxies ELSE NoProxies
  IN IF env.HTTP_PROXY # ""
     THEN [http |-> env.HTTP_PROXY, https |-> env.HTTPS_PROXY]
     ELSE fromConfig

\* config_compression, lines 46-54: what is appended to path_template
Suffix(cfg) ==
  IF cfg.compression = "gzip" THEN <<".gz">>
  ELSE IF cfg.compression = "lzma" THEN <<".xz">>
  ELSE <<>>

\* config_compression, lines 46-55: the function stored as open_func
OpenFunc(cfg) ==
  IF cfg.compression = "gzip" THEN "gzip.compress"
  ELSE IF cfg.compression = "lzma" THEN "lzma.compress"
  ELSE "open"

\* config_compression, lines 41-63: the configuration it returns (a new dict),
\* or the exception it raises
ConfigCompression(cfg) ==
  IF CompressionSupported(cfg)
  THEN [ok |-> TRUE, error |-> "none", open_func |-> OpenFunc(cfg),
        path_template |-> cfg.path_template \o Suffix(cfg)]
  ELSE [ok |-> FALSE, error |-> "NotImplementedError", open_func |-> "none",
        path_template |-> cfg.path_template]

\* put_object, line 130: the records as JSON lines, each ended by a newline
Payload(records) == Flat([i \in 1..Len(records) |-> <<records[i], "\n">>])

\* open_func applied to the payload, line 129. The compressors return the
\* compressed payload. open is the builtin: it takes the payload as the path of
\* a file, and returns that file opened for reading, or raises when there is
\* no such file.
ApplyOpenFunc(f, payload, exists) ==
  IF f = "open"
  THEN IF exists THEN [ok |-> TRUE, body |-> <<"file at", payload>>]
       ELSE [ok |-> FALSE, body |-> <<>>]
  ELSE [ok |-> TRUE, body |-> <<f, payload>>]

\* one invocation of the body of put_object, lines 126-132
PutObjectBody(cfg, records, exists, r) ==
  IF ~EncryptionSupported(cfg) THEN "NotImplementedError"
  ELSE IF ~ApplyOpenFunc(OpenFunc(cfg), Payload(records), exists).ok
       THEN "FileNotFoundError"
  ELSE r

\* put_object under the retry policy, lines 124-136: whether it returned, and
\* the Body the client was given (<<>> when the client was not called)
PutObject(cfg, records, exists, o) ==
  LET w == RetryCall([t \in 1..(max_tries + 1) |->
                       PutObjectBody(cfg, records, exists,
                                     IF t <= Len(o) THEN o[t] ELSE "ok")], 0)
      reached == w.error \in {"none"} \cup Causes
  IN [ok |-> w.ok, calls |-> w.calls, error |-> w.error,
      body |-> IF reached
               THEN ApplyOpenFunc(OpenFunc(cfg), Payload(records), exists).body
               ELSE <<>>]

Records == UNION {[1..n -> {"r1", "r2"}] : n \in 0..MaxRecords}

\* Each function is called once, alone, on drawn arguments.
InitCalls ==
  /\ InitCommon
  /\ cfgFlush = 0
  /\ clock = 0
  /\ threadPool = TRUE
  /\ \E c \in Compressions, e \in EncryptionTypes, l, rm \in BOOLEAN,
        p \in {"", "http://config"} :
       config = [DefaultConfig EXCEPT !.compression = c, !.encryption_type = e,
                                      !.local = l, !.remove_file = rm,
                                      !.proxies = [http |-> p, https |-> p]]
  /\ \E h, hs \in {"", "http://env"} : environ = [HTTP_PROXY |-> h, HTTPS_PROXY |-> hs]
  /\ streamOf = [i \in 1..MaxLines |-> "a"]
  /\ file \in FileStates

\* what a call of a function alone leaves as it is
callFrame == <<input, eof, envVars, curSchemaBuffer, lastFlushTime, segVars, pc,
               lastTime, client, raised, uploads, hist, flushTimes, retryIn,
               retryOut, file>>

CallProxyConfig ==
  /\ fnOut.name = "none"
  /\ fnOut' = [name |-> "proxy_config", out |-> ProxyConfig(config, environ)]
  /\ UNCHANGED callFrame

CallUploadFile ==
  /\ fnOut.name = "none"
  /\ \E k \in 0..MaxFails :
       fnOut' = [name |-> "upload_file", out |-> UploadFile(config, file, FailThenOk(k))]
  /\ UNCHANGED callFrame

CallConfigCompression ==
  /\ fnOut.name = "none"
  /\ fnOut' = [name |-> "config_compression", out |-> ConfigCompression(config)]
  /\ UNCHANGED callFrame

CallPutObject ==
  /\ fnOut.name = "none"
  /\ CompressionSupported(config)
  /\ \E records \in Records, exists \in BOOLEAN, k \in 0..MaxFails :
       fnOut' = [name |-> "put_object", records |-> records,
                 out |-> PutObject(config, records, exists, FailThenOk(k))]
  /\ UNCHANGED callFrame

NextCalls ==
  \/ CallProxyConfig
  \/ CallUploadFile
  \/ CallConfigCompression
  \/ CallPutObject

SpecCalls == InitCalls /\ [][NextCalls]_vars

\* The segmenter on input of several streams: the stream of each line is
\* drawn, the interval is 0 and the clock stands after a long pause, so that
\* every STATE line ends a segment.
InitSchema ==
  /\ InitCommon
  /\ cfgFlush = 0
  /\ clock = LongPause + 1
  /\ threadPool = TRUE
  /\ config = DefaultConfig
  /\ environ = [HTTP_PROXY |-> "", HTTPS_PROXY |-> ""]
  /\ streamOf \in [1..MaxLines -> {"a", "b"}]
  /\ file = "data"

NextSchema ==
  \/ Start
  \/ LoopHead
  \/ BuildConfig
  \/ Authenticate
  \/ \E size \in ReadSizes : Read(size)
  \/ RunReturn
  \/ PoolExit
  \/ Check

SpecSchema == InitSchema /\ [][NextSchema]_vars

\* ------------------------------------------------------------- properties
\* the bytes of the input lines read so far, in order
InputBytes == Flat([i \in 1..Len(input) |-> Bytes(i)])

\* the raw bytes of the SCHEMA lines among the first n input lines, in order
SchemaBytes(n) ==
  Flat([i \in 1..n |-> IF input[i] = "SCHEMA" THEN Bytes(i) ELSE <<>>])

\* what the consumer of segment k was handed, and that without the segment's seed
Out(k) == hist[k].out
OutNew(k) == SubSeq(hist[k].out, Len(hist[k].seed) + 1, Len(hist[k].out))

IsPrefix(p, b) == Len(p) <= Len(b) /\ SubSeq(b, 1, Len(p)) = p
Contains(b, t) == \E off \in 0..(Len(b) - Len(t)) : SubSeq(b, off + 1, off + Len(t)) = t
EndsWith(b, t) == Len(t) <= Len(b) /\ SubSeq(b, Len(b) - Len(t) + 1, Len(b)) = t

\* the lines read from the input while segment k was the current one
LinesOf(k) ==
  (hist[k].from + 1) .. (IF k < Len(hist) THEN hist[k + 1].from ELSE Len(input))

\* C1 as stated: when main has returned, the bytes read() handed out over all
\* segments, concatenated in segment order, are exactly the input bytes.
C1_OutputEqualsInput ==
  pc = "done" => Flat([k \in 1..Len(hist) |-> Out(k)]) = InputBytes

\* C1 amended: when main has returned, every segment's output starts with its
\* seed, the seed is the raw bytes of the SCHEMA lines read in earlier segments
\* (replayed, so duplicated), and the outputs without their seeds, concatenated
\* in segment order, are exactly the input bytes.
C1_OutputIsInputPlusReplay ==
  pc = "done" =>
    /\ \A k \in 1..Len(hist) :
         /\ IsPrefix(hist[k].seed, Out(k))
         /\ hist[k].seed = SchemaBytes(hist[k].from)
    /\ Flat([k \in 1..Len(hist) |-> OutNew(k)]) = InputBytes

\* main has returned after a flush, the second segment replayed a schema, and
\* the input had as many lines as the bound allows
C1_Witness ==
  /\ pc = "done"
  /\ Len(hist) >= 2
  /\ hist[2].seed # <<>>
  /\ Len(input) = MaxLines

\* C2: the seed of segment K+1 holds the raw bytes of every SCHEMA line read
\* during segment K, and what the consumer of a segment is handed starts with
\* the seed, before any byte of a new input line.
C2_SchemaCarryForward ==
  /\ \A k \in 2..Len(hist) :
       \A i \in LinesOf(k - 1) :
         input[i] = "SCHEMA" => Contains(hist[k].seed, Bytes(i))
  /\ \A k \in 1..Len(hist) :
       \/ IsPrefix(Out(k), hist[k].seed)
       \/ IsPrefix(hist[k].seed, Out(k))

\* segment 2 was seeded with a SCHEMA line of segment 1 and has handed it out
C2_Witness ==
  /\ Len(hist) >= 2
  /\ \E i \in LinesOf(1) : input[i] = "SCHEMA" /\ Contains(Out(2), Bytes(i))

\* C3: while stoppedState is true, the segment is empty, the last bytes put in
\* its buffer are a whole STATE line, the last line read; and no step reads a
\* further line while the flag stays true.
C3_CheckpointAlignment ==
  /\ [](stoppedState =>
          /\ empty
          /\ Len(input) >= 1
          /\ input[Len(input)] = "STATE"
          /\ EndsWith(Out(seg) \o buffer, Bytes(Len(input))))
  /\ [][stoppedState /\ stoppedState' => input' = input]_vars

\* a segment stopped at a checkpoint has been read to its end
C3_Witness == stoppedState /\ closed /\ pc = "drain"

\* C4: two consecutive checkpoint-triggered flushes are at least flushSeconds
\* apart on the clock.
C4_FlushIntervalLowerBound ==
  \A i \in 1..(Len(flushTimes) - 1) :
    flushTimes[i + 1] - flushTimes[i] >= flushSeconds

\* two flushes have happened, the second in a later segment than the first
C4_Witness == Len(flushTimes) >= 2 /\ Len(hist) >= 2

\* C5: with flush_seconds = 0 and the input SCHEMA, RECORD, STATE, the first
\* segment holds the three lines and ends with stoppedState true.
C5_ZeroIntervalFlushesAtFirstState ==
  (cfgFlush = 0 /\ input = <<"SCHEMA", "RECORD", "STATE">> /\ Len(hist) = 1
     /\ pc = "check")
  => /\ Out(1) = Bytes(1) \o Bytes(2) \o Bytes(3)
     /\ stoppedState

\* C6: an upload that has not finished belongs to the current segment, whose
\* with block is still open; so every upload of segment N has finished before
\* the segmenter of segment N+1 is constructed (and before create_session or
\* an upload of segment N+1), and no two unfinished uploads are of different
\* segments.
C6_PoolDrainBarrier ==
  /\ \A u \in uploads :
       u.st = "queued" => u.seg = seg /\ pc \in {"run", "drain"}
  /\ \A u, v \in uploads :
       u.st = "queued" /\ v.st = "queued" => u.seg = v.seg

\* an upload of segment 2 is in flight, after one of segment 1 has finished
C6_Witness ==
  /\ threadPool
  /\ \E u, v \in uploads :
       u.seg = 1 /\ u.st # "queued" /\ v.seg = 2 /\ v.st = "queued"

\* C7: once an upload has failed on all its attempts, main neither returns
\* normally nor starts a further segment.
C7_FailedUploadAborts ==
  \A u \in uploads :
    u.st = "failed" => pc # "done" /\ seg = u.seg

\* the number of leading ClientErrors of a drawn sequence of outcomes
RECURSIVE LeadingErrors(_)
LeadingErrors(o) ==
  IF o = <<>> \/ Head(o) = "ok" THEN 0 ELSE 1 + LeadingErrors(Tail(o))

\* C8: a wrapped function is invoked at most max_tries = 5 times; k < 5
\* ClientErrors and then a success give the success after k + 1 invocations;
\* 5 ClientErrors give the 5th error, after 5 invocations; the causes of the
\* errors make no difference.
C8_RetryBound ==
  retryOut.calls # 0 =>
    LET k == LeadingErrors(retryIn)
    IN /\ retryOut.calls <= 5
       /\ k < 5 => retryOut = [ok |-> TRUE, calls |-> k + 1, error |-> "none"]
       /\ k >= 5 => retryOut = [ok |-> FALSE, calls |-> 5, error |-> retryIn[5]]

\* four errors of different causes, then the success at the fifth invocation
C8_Witness ==
  /\ retryOut.calls = 5 /\ retryOut.ok
  /\ retryIn[1] # retryIn[2]

\* C9: a new segment is started only after a segment that stopped at a
\* checkpoint, main returns only after a segment that did not, and after a
\* segment that stopped at a checkpoint main goes back to the head of the loop.
C9_OrchestratorTransition ==
  [][/\ (seg' # seg /\ seg >= 1) => stoppedState
     /\ (pc' = "done" /\ pc # "done") => (pc = "check" /\ ~stoppedState /\ eof)
     /\ (pc = "check" /\ pc' # pc) => (pc' = IF stoppedState THEN "loop" ELSE "done")
    ]_vars

\* main has returned after a second segment
C9_Witness == pc = "done" /\ Len(hist) >= 2

\* C10: no two consecutive segments build their configuration in the same
\* (rounded) second.
C10_DistinctBuildSeconds ==
  \A k \in 1..(Len(hist) - 1) : hist[k + 1].built # hist[k].built

\* C11: a session is created at most once in a run of main: create_session is
\* called only in the first segment (whether it succeeds or gives up), the
\* client is never replaced, and the uploads of every segment are given the
\* client of the first.
C11_SessionCreatedOnce ==
  /\ [](client <= 1 /\ \A u \in uploads : u.client = 1)
  /\ [][/\ client' # client => (seg = 1 /\ client = 0)
        /\ (pc = "auth" /\ pc' = "aborted") => seg = 1
       ]_vars

\* an upload of the second segment, made with the client of the first
C11_Witness ==
  /\ Len(hist) >= 2
  /\ \E u \in uploads : u.seg = 2 /\ u.client = 1

\* C12: under an unsupported compression, an unsupported encryption type or a
\* missing s3_bucket, main aborts before it reads a line of input, before it
\* creates a session and before any upload is attempted.
C12_ConfigErrorsBeforeAnyIO ==
  (~CompressionSupported(config) \/ ~EncryptionSupported(config)
     \/ MissingParams(config)) =>
    /\ input = <<>>
    /\ client = 0
    /\ uploads = {}
    /\ pc \in {"start", "loop", "build", "aborted"}

\* C13: when the configuration has a non-empty proxies value, the client is
\* configured with exactly that value, whatever HTTP_PROXY and HTTPS_PROXY are
\* in the environment; without one and with HTTP_PROXY set, with those of the
\* environment.
C13_ConfigProxiesFirst ==
  fnOut.name = "proxy_config" =>
    /\ config.proxies # NoProxies => fnOut.out = config.proxies
    /\ (config.proxies = NoProxies /\ environ.HTTP_PROXY # "") =>
         fnOut.out = [http |-> environ.HTTP_PROXY, https |-> environ.HTTPS_PROXY]

\* C14: upload_file on a configuration with local set, on a missing file or on
\* a file of zero bytes returns at its first invocation without an error,
\* without a call of the client, and leaves the file as it was.
C14_UploadFileNoOp ==
  (fnOut.name = "upload_file"
     /\ (config.local \/ file = "missing" \/ file = "empty")) =>
    /\ fnOut.out.ok /\ fnOut.out.error = "none"
    /\ fnOut.out.calls = 1
    /\ fnOut.out.client_calls = 0
    /\ fnOut.out.file = file

\* local mode, a file with data, remove_file set and an unsupported
\* encryption type: nothing is called, nothing is raised, the file is kept
C14_Witness ==
  /\ fnOut.name = "upload_file"
  /\ config.local /\ file = "data" /\ config.remove_file
  /\ ~EncryptionSupported(config)
  /\ fnOut.out.ok /\ fnOut.out.file = "data"

\* C15: with compression none the Body put_object gives the client is the
\* newline-joined JSON lines themselves, and path_template is unchanged; with
\* gzip and lzma, path_template gets .gz and .xz appended, once.
C15_NoneIsIdentity ==
  /\ (fnOut.name = "put_object" /\ config.compression = "none"
        /\ EncryptionSupported(config)) =>
       /\ fnOut.out.error \in {"none"} \cup Causes
       /\ fnOut.out.body = Payload(fnOut.records)
  /\ fnOut.name = "config_compression" =>
       fnOut.out.path_template =
         config.path_template \o
           (IF config.compression = "gzip" THEN <<".gz">>
            ELSE IF config.compression = "lzma" THEN <<".xz">> ELSE <<>>)

\* C16: the retained-schema buffer holds, of each stream, only the SCHEMA line
\* read last, so no more lines than there are streams with a SCHEMA line.
C16_MostRecentSchemaPerStream ==
  LET schemas == {i \in 1..Len(input) : input[i] = "SCHEMA"}
      kept == {i \in schemas : Contains(curSchemaBuffer, Bytes(i))}
  IN /\ \A i \in kept : \A j \in schemas : streamOf[j] = streamOf[i] => j <= i
     /\ Len(curSchemaBuffer) <= LineLen * Cardinality({streamOf[i] : i \in schemas})

\* C17: a line that does not parse is fatal and changes nothing of the
\* segment: the read that pulled it raises, the line is appended neither to
\* the buffer nor to the retained schemas, nothing is handed to the consumer,
\* and empty, closed, stoppedState and lastFlushTime stay as they were; the
\* error is not swallowed (main aborts) and no line is read after it.
C17_MalformedLineIsFatal ==
  /\ [][(Len(input') > Len(input) /\ input'[Len(input')] = "BAD") =>
          /\ raised' /\ pc' = "drain"
          /\ UNCHANGED <<buffer, curSchemaBuffer, hist, empty, closed,
                         stoppedState, lastFlushTime>>
       ]_vars
  /\ [](\A i \in 1..Len(input) : input[i] = "BAD" =>
          /\ i = Len(input)
          /\ raised /\ pc \in {"drain", "aborted"})

\* main has aborted on a malformed line read after a SCHEMA line, part of
\* which was still in the buffer
C17_Witness ==
  /\ pc = "aborted" /\ raised
  /\ Len(input) >= 2 /\ input[1] = "SCHEMA" /\ input[Len(input)] = "BAD"
  /\ buffer # <<>>
  /\ curSchemaBuffer = Bytes(1)

Pending(k) == Out(k) \o (IF k = seg THEN buffer ELSE <<>>)
LineBytesOf(k) ==
  LET last == IF k < Len(hist) THEN hist[k + 1].from ELSE Len(input)
  IN Flat([j \in 1..(last - hist[k].from) |->
             IF input[hist[k].from + j] = "BAD" THEN <<>>
             ELSE Bytes(hist[k].from + j)])

\* C19: at every moment, what each segment was handed (with, for the running
\* segment, what is still in its buffer) is the seed the segmenter started
\* with followed by exactly the bytes of the lines read from the input during
\* that segment, in input order: every line read is delivered once, in the
\* one segment that read it. A segment left behind has nothing undelivered,
\* and when main returns the whole input was read and delivered.
C19_EveryLineOnceInItsSegment ==
  /\ \A k \in 1..Len(hist) :
       /\ Pending(k) = hist[k].seed \o LineBytesOf(k)
       /\ k < seg => hist[k].from < hist[k + 1].from
  /\ pc = "done" =>
       /\ eof /\ buffer = <<>>
       /\ Flat([k \in 1..Len(hist) |-> LineBytesOf(k)]) = InputBytes

\* the second segment is running: it has read a line of its own, part of
\* which is still in its buffer, after a first segment that read two lines
C19_Witness ==
  /\ pc = "run" /\ seg = 2
  /\ hist[2].from = 2 /\ Len(input) = 3
  /\ buffer # <<>> /\ Len(OutNew(2)) > 0

\* C20: main terminates: it returns, or an error leaves it. It aborts only on
\* an error (a malformed line or a failed inline upload was raised, or no
\* session could be created), so on well-formed input with working uploads it
\* returns. It never runs more segments than the input has STATE lines, plus
\* one, and the segment after which it returns ended by the end of the input.
C20_MainTerminates ==
  /\ <>(pc \in {"done", "aborted"})
  /\ [](pc = "aborted" => (raised \/ client = 0))
  /\ [](Len(hist) <= Cardinality({i \in 1..Len(input) : input[i] = "STATE"}) + 1)
  /\ [](pc = "done" => (~stoppedState /\ eof /\ closed))

\* main has returned after as many segments as there were STATE lines, plus
\* one, every upload done
C20_Witness ==
  /\ pc = "done"
  /\ Len(hist) = Cardinality({i \in 1..Len(input) : input[i] = "STATE"}) + 1
  /\ Len(hist) >= 2
  /\ uploads # {} /\ \A u \in uploads : u.st = "done"
====
